---- MODULE Spec2Model ----
(***************************************************************************)
(* NetSentinel dashboard: the state and the handlers of the component      *)
(* ThreatAnalysisDashboard (src/components/ThreatAnalysisDashboard.tsx),   *)
(* the component that src/app/dashboard/page.tsx renders.                  *)
(*                                                                         *)
(* JavaScript values are records [ty, s, n]; objects decoded from JSON     *)
(* are records [kind, incident_id, threat_score, main_event, sequence],    *)
(* the fields the handlers read or copy.  Time is in milliseconds and      *)
(* advances in steps of the shortest timer delay of the component.         *)
(***************************************************************************)
EXTENDS Integers, Sequences, FiniteSets, Bags

(* ------------------------------ bounds --------------------------------- *)

\* accepted stream messages in the stream specification
MaxAccepted == 11

\* accepted stream messages in the specifications of the detail view
MaxFeed == 2

\* clock steps in the specification of the detail view
MaxTimeDetail == 2

\* clock steps in the specification of the notices
MaxTimeNotice == 3

\* detail fetches in flight in the specification of selection alone
MaxFetches == 2

\* detail fetches in flight in the specification of the whole detail view
MaxFetchesDetail == 1

\* backend calls of any kind in flight in the specification of all handlers
MaxCalls == 1

\* mitigate calls in flight or with their delayed close pending
MaxMitigations == 1

\* simulate calls in flight
MaxSimulations == 1

(* --------------------------- program constants ------------------------- *)

\* setTimeout(() => setMitigationSuccess(null), 2000), and the same for
\* simulationFeedback
NoticeDelayMs == 2000

\* setTimeout(() => setActiveIncident(null), 1000)
CloseDelayMs == 1000

(* -------------------------- JavaScript values -------------------------- *)

Undefined == [ty |-> "undefined", s |-> "", n |-> 0]

JsNull == [ty |-> "null", s |-> "", n |-> 0]

Str(x) == [ty |-> "string", s |-> x, n |-> 0]

Num(k) == [ty |-> "number", s |-> "", n |-> k]

\* ToBoolean of a value, as `a && b` and `!a` apply it
Truthy(v) ==
  CASE v.ty = "undefined" -> FALSE
    [] v.ty = "null" -> FALSE
    [] v.ty = "string" -> v.s # ""
    [] v.ty = "number" -> v.n # 0
    [] OTHER -> TRUE

\* the typeof operator
TypeOf(v) == IF v.ty = "null" THEN "object" ELSE v.ty

Min(a, b) == IF a < b THEN a ELSE b

\* Array.prototype.slice(begin, end) for 0 <= begin <= end
Slice(arr, begin, end) == SubSeq(arr, begin + 1, Min(end, Len(arr)))

(* ----------------------------- JSON.parse ------------------------------ *)

Obj(id, score, ev, seq) ==
  [kind |-> "object", incident_id |-> id, threat_score |-> score,
   main_event |-> ev, sequence |-> seq]

\* a decoded value that is no object: null, or a number
Scalar(k) ==
  [kind |-> k, incident_id |-> Undefined, threat_score |-> Undefined,
   main_event |-> Undefined, sequence |-> <<>>]

TxtGarbage == "{not json"
TxtNull == "null"
TxtNumber == "42"
TxtFooBar == "{\"foo\":\"bar\"}"
TxtEmptyId == "{\"incident_id\":\"\",\"threat_score\":80,\"main_event\":\"Scan\",\"sequence\":[\"syn\"]}"
TxtNoId == "{\"threat_score\":80,\"main_event\":\"Scan\",\"sequence\":[\"syn\"]}"
TxtTextScore == "{\"incident_id\":\"A\",\"threat_score\":\"80\",\"main_event\":\"Scan\",\"sequence\":[\"syn\"]}"
TxtNoScore == "{\"incident_id\":\"A\",\"main_event\":\"Scan\",\"sequence\":[\"syn\"]}"
TxtAlertA == "{\"incident_id\":\"A\",\"threat_score\":80,\"main_event\":\"Scan\",\"sequence\":[\"syn\"]}"
TxtAlertB == "{\"incident_id\":\"B\",\"threat_score\":0,\"main_event\":\"Flood\",\"sequence\":[\"udp\",\"udp\"]}"

\* the message texts the stream delivers
Payloads ==
  {TxtGarbage, TxtNull, TxtNumber, TxtFooBar, TxtEmptyId, TxtNoId,
   TxtTextScore, TxtNoScore, TxtAlertA, TxtAlertB}

\* JSON.parse on the texts above: threw, or the decoded value
JSONParse(text) ==
  CASE text = TxtGarbage -> [threw |-> TRUE, value |-> Scalar("none")]
    [] text = TxtNull -> [threw |-> FALSE, value |-> Scalar("null")]
    [] text = TxtNumber -> [threw |-> FALSE, value |-> Scalar("number")]
    [] text = TxtFooBar ->
         [threw |-> FALSE, value |-> Obj(Undefined, Undefined, Undefined, <<>>)]
    [] text = TxtEmptyId ->
         [threw |-> FALSE, value |-> Obj(Str(""), Num(80), Str("Scan"), <<"syn">>)]
    [] text = TxtNoId ->
         [threw |-> FALSE, value |-> Obj(Undefined, Num(80), Str("Scan"), <<"syn">>)]
    [] text = TxtTextScore ->
         [threw |-> FALSE, value |-> Obj(Str("A"), Str("80"), Str("Scan"), <<"syn">>)]
    [] text = TxtNoScore ->
         [threw |-> FALSE, value |-> Obj(Str("A"), Undefined, Str("Scan"), <<"syn">>)]
    [] text = TxtAlertA ->
         [threw |-> FALSE, value |-> Obj(Str("A"), Num(80), Str("Scan"), <<"syn">>)]
    [] text = TxtAlertB ->
         [threw |-> FALSE,
          value |-> Obj(Str("B"), Num(0), Str("Flood"), <<"udp", "udp">>)]

\* reading a property of null throws a TypeError; of a number it gives undefined
PropertyReadThrows(data) == data.kind = "null"

(* ------------------------------- state --------------------------------- *)

VARIABLES
  phase,              \* "new" | "mounted" | "unmounted"
  wsOpened,           \* WebSocket connections constructed
  wsCloseCalls,       \* calls of ws.close()
  wsErrorLogged,      \* console.error("WS error:", ...) has run
  parseErrorLogged,   \* console.error("Parse error:", ...) has run
  mode,               \* useState "live" | "twin"
  alerts,             \* useState Alert[]
  activeIncident,     \* useState FullIncident | null
  mitigationSuccess,  \* useState string | null
  simulationFeedback, \* useState string | null
  mitTimer,           \* deadline of the auto-dismiss timer of mitigationSuccess, -1: none
  simTimer,           \* deadline of the auto-dismiss timer of simulationFeedback, -1: none
  closeTimers,        \* bag: deadlines of the pending delayed closes of handleMitigate
  fetches,            \* bag: detail fetches in flight, the alerts they were started for
  mitigations,        \* bag: mitigate calls in flight, the incidents the handler holds
  simulations,        \* bag: simulate calls in flight, their kinds
  now,                \* the clock, in milliseconds
  accepted,           \* history: the accepted messages, oldest first
  simRaisedAt,        \* history: time of the last setSimulationFeedback(message)
  lastOp,             \* history: the handler that ran last
  lastArg,            \* history: its input (a message text, an outcome)
  lastAlert,          \* history: the alert the detail fetch that just settled was for
  lastSelected        \* history: the alert of the most recent handleAlertClick

vars ==
  <<phase, wsOpened, wsCloseCalls, wsErrorLogged, parseErrorLogged, mode, alerts,
    activeIncident, mitigationSuccess, simulationFeedback, mitTimer, simTimer,
    closeTimers, fetches, mitigations, simulations, now, accepted,
    simRaisedAt, lastOp, lastArg, lastAlert, lastSelected>>

detailVars == <<activeIncident, fetches, mitigations, closeTimers>>

noticeVars ==
  <<mitigationSuccess, simulationFeedback, mitTimer, simTimer, simulations,
    simRaisedAt>>

(* ---------------------------- active incident -------------------------- *)

\* a value of the activeIncident slot: an alert's fields and the three of FullIncident
Incident(kind, a, ip, first, last) ==
  [kind |-> kind, incident_id |-> a.incident_id, threat_score |-> a.threat_score,
   main_event |-> a.main_event, sequence |-> a.sequence, attacker_ip |-> ip,
   first_seen |-> first, last_seen |-> last]

\* null
NoIncident == Incident("null", Scalar("null"), Undefined, 0, 0)

\* the empty string, what axios gives for an empty response body
EmptyText == Incident("string", Scalar("string"), Undefined, 0, 0)

\* `activeIncident &&`: null and "" are falsy, an object is truthy
Shown(inc) == inc.kind = "object"

NoAlert == Scalar("none")

(* ------------------------------ life cycle ----------------------------- *)

Init ==
  /\ phase = "new"
  /\ wsOpened = 0
  /\ wsCloseCalls = 0
  /\ wsErrorLogged = FALSE
  /\ parseErrorLogged = FALSE
  /\ mode = "live"
  /\ alerts = <<>>
  /\ activeIncident = NoIncident
  /\ mitigationSuccess = JsNull
  /\ simulationFeedback = JsNull
  /\ mitTimer = -1
  /\ simTimer = -1
  /\ closeTimers = EmptyBag
  /\ fetches = EmptyBag
  /\ mitigations = EmptyBag
  /\ simulations = EmptyBag
  /\ now = 0
  /\ accepted = <<>>
  /\ simRaisedAt = -1
  /\ lastOp = "init"
  /\ lastArg = ""
  /\ lastAlert = NoAlert
  /\ lastSelected = NoAlert

\* the mount effect: new WebSocket(...), handlers attached
Mount ==
  /\ phase = "new"
  /\ phase' = "mounted"
  /\ wsOpened' = wsOpened + 1
  /\ lastOp' = "mount"
  /\ lastArg' = ""
  /\ lastAlert' = NoAlert
  /\ UNCHANGED lastSelected
  /\ UNCHANGED <<wsCloseCalls, wsErrorLogged, parseErrorLogged, mode, alerts, accepted, now>>
  /\ UNCHANGED <<detailVars, noticeVars>>

\* the effect cleanups at unmount: ws.close(), and clearTimeout of both notice
\* timers.  State updates of callbacks that run later are dropped by React, so
\* nothing is enabled after it.
Unmount ==
  /\ phase = "mounted"
  /\ phase' = "unmounted"
  /\ wsCloseCalls' = wsCloseCalls + 1
  /\ mitTimer' = -1
  /\ simTimer' = -1
  /\ lastOp' = "unmount"
  /\ lastArg' = ""
  /\ lastAlert' = NoAlert
  /\ UNCHANGED lastSelected
  /\ UNCHANGED <<wsOpened, wsErrorLogged, parseErrorLogged, mode, alerts, accepted, now, mitigationSuccess, simulationFeedback,
                 simulations, simRaisedAt>>
  /\ UNCHANGED detailVars

(* ---------------------------- live feed -------------------------------- *)

\* the check with the typeof test left out
AcceptsIdOnly(data) == Truthy(data.incident_id)

\* data.incident_id && typeof data.threat_score === "number"
Accepts(data) == Truthy(data.incident_id) /\ TypeOf(data.threat_score) = "number"

\* the updater with the slice one too long
PrependSliceTen(data, prev) == <<data>> \o Slice(prev, 0, 10)

\* the updater (prev) => [data, ...prev.slice(0, 9)]
Prepend(data, prev) == <<data>> \o Slice(prev, 0, 9)

\* a catch block that gives the connection up
CaughtClosing ==
  /\ parseErrorLogged' = TRUE
  /\ wsCloseCalls' = wsCloseCalls + 1
  /\ UNCHANGED <<alerts, accepted, phase, wsOpened>>

\* the catch block of ws.onmessage: console.error, nothing else
Caught ==
  /\ parseErrorLogged' = TRUE
  /\ UNCHANGED <<alerts, accepted, phase, wsOpened, wsCloseCalls>>

\* ws.onmessage
OnMessage(text) ==
  /\ phase = "mounted"
  /\ LET r == JSONParse(text) IN
       IF r.threw \/ PropertyReadThrows(r.value)
         THEN Caught
         ELSE /\ IF Accepts(r.value)
                   THEN /\ alerts' = Prepend(r.value, alerts)
                        /\ accepted' = Append(accepted, r.value)
                   ELSE UNCHANGED <<alerts, accepted>>
              /\ UNCHANGED <<parseErrorLogged, phase, wsOpened, wsCloseCalls>>
  /\ lastOp' = "message"
  /\ lastArg' = text
  /\ lastAlert' = NoAlert
  /\ UNCHANGED lastSelected
  /\ UNCHANGED <<wsErrorLogged, mode, now>>
  /\ UNCHANGED <<detailVars, noticeVars>>

\* an error handler that reconnects
OnErrorReconnect ==
  /\ phase = "mounted"
  /\ wsErrorLogged' = TRUE
  /\ wsOpened' = wsOpened + 1
  /\ lastOp' = "wsError"
  /\ lastArg' = ""
  /\ lastAlert' = NoAlert
  /\ UNCHANGED lastSelected
  /\ UNCHANGED <<phase, wsCloseCalls, parseErrorLogged, mode, alerts,
                 accepted, now>>
  /\ UNCHANGED <<detailVars, noticeVars>>

\* ws.onerror: console.error, nothing else
OnError ==
  /\ phase = "mounted"
  /\ wsErrorLogged' = TRUE
  /\ lastOp' = "wsError"
  /\ lastArg' = ""
  /\ lastAlert' = NoAlert
  /\ UNCHANGED lastSelected
  /\ UNCHANGED <<phase, wsOpened, wsCloseCalls, parseErrorLogged, mode, alerts,
                 accepted, now>>
  /\ UNCHANGED <<detailVars, noticeVars>>

(* ------------------------------ mode ----------------------------------- *)

\* a mode switch that starts the new mode with an empty dashboard
ModeChangeResetting(newMode) ==
  /\ phase = "mounted"
  /\ mode' = newMode
  /\ alerts' = <<>>
  /\ activeIncident' = NoIncident
  /\ lastOp' = "modeChange"
  /\ lastArg' = newMode
  /\ lastAlert' = NoAlert
  /\ UNCHANGED lastSelected
  /\ UNCHANGED <<phase, wsOpened, wsCloseCalls, wsErrorLogged, parseErrorLogged,
                 accepted, now>>
  /\ UNCHANGED <<fetches, mitigations, closeTimers>>
  /\ UNCHANGED noticeVars

\* handleModeChange
ModeChange(newMode) ==
  /\ phase = "mounted"
  /\ mode' = newMode
  /\ lastOp' = "modeChange"
  /\ lastArg' = newMode
  /\ lastAlert' = NoAlert
  /\ UNCHANGED lastSelected
  /\ UNCHANGED <<phase, wsOpened, wsCloseCalls, wsErrorLogged, parseErrorLogged,
                 alerts, accepted, now>>
  /\ UNCHANGED <<detailVars, noticeVars>>

(* --------------------------- the backend ------------------------------- *)

\* no response at all
NetworkError == [net |-> FALSE, status |-> 0, body |-> "none"]

Http(status, body) == [net |-> TRUE, status |-> status, body |-> body]

\* what GET /api/incident/{id} can come back with: nothing, an error status,
\* the record (attacker resolved or "Unknown"), the JSON text null, no body
Responses ==
  {NetworkError, Http(500, "error"), Http(200, "record"),
   Http(200, "record_unknown_ip"), Http(200, "null"), Http(200, "")}

\* axios rejects without a response and on a status outside 2xx
Rejects(resp) == ~resp.net \/ resp.status < 200 \/ resp.status >= 300

\* the backend's record of an incident: the summary's fields, a longer
\* timeline, its own timestamps
BackendIncident(alert, ip) ==
  Incident("object", [alert EXCEPT !.sequence = Append(@, "block")], ip, 0, 0)

\* res.data: the decoded body; JSON null decodes to null, and an empty body is
\* handed on as the empty string
ResponseData(resp, alert) ==
  CASE resp.body = "record" -> BackendIncident(alert, Str("10.0.0.5"))
    [] resp.body = "record_unknown_ip" -> BackendIncident(alert, Str("Unknown"))
    [] resp.body = "null" -> NoIncident
    [] OTHER -> EmptyText

Outcome(resp) ==
  IF ~resp.net THEN "network_error"
  ELSE IF Rejects(resp) THEN "http_error"
  ELSE IF resp.body = "null" THEN "null_body"
  ELSE IF resp.body = "" THEN "empty_body"
  ELSE "record"

\* a call is started, a call settles
With(bag, x) == bag (+) SetToBag({x})

Without(bag, x) == bag (-) SetToBag({x})

(* ----------------------------- detail view ----------------------------- *)

\* the catch block of handleAlertClick: the summary, Date.now() twice, a fixed
\* attacker_ip
Placeholder(alert) == Incident("object", alert, Str("192.168.1.100"), now, now)

\* handleAlertClick up to its await: the click on the i-th entry of the list
AlertClick(i) ==
  /\ phase = "mounted"
  /\ i \in 1..Len(alerts)
  /\ fetches' = With(fetches, alerts[i])
  /\ lastOp' = "alertClick"
  /\ lastArg' = ""
  /\ lastAlert' = NoAlert
  /\ lastSelected' = alerts[i]
  /\ UNCHANGED <<phase, wsOpened, wsCloseCalls, wsErrorLogged, parseErrorLogged,
                 mode, alerts, accepted, now>>
  /\ UNCHANGED <<activeIncident, mitigations, closeTimers>>
  /\ UNCHANGED noticeVars

\* a resolution that drops the result of a selection that is no longer the
\* most recent one
FetchSettleLatestOnly(alert, resp) ==
  /\ phase = "mounted"
  /\ BagIn(alert, fetches)
  /\ activeIncident' =
       IF alert # lastSelected THEN activeIncident
       ELSE IF Rejects(resp) THEN Placeholder(alert)
       ELSE ResponseData(resp, alert)
  /\ fetches' = Without(fetches, alert)
  /\ lastOp' = "fetchSettle"
  /\ lastArg' = Outcome(resp)
  /\ lastAlert' = alert
  /\ UNCHANGED lastSelected
  /\ UNCHANGED <<phase, wsOpened, wsCloseCalls, wsErrorLogged, parseErrorLogged,
                 mode, alerts, accepted, now>>
  /\ UNCHANGED <<mitigations, closeTimers>>
  /\ UNCHANGED noticeVars

\* handleAlertClick after its await: a fetch in flight, started for `alert`,
\* settles
FetchSettle(alert, resp) ==
  /\ phase = "mounted"
  /\ BagIn(alert, fetches)
  /\ activeIncident' =
       IF Rejects(resp) THEN Placeholder(alert)
       ELSE ResponseData(resp, alert)
  /\ fetches' = Without(fetches, alert)
  /\ lastOp' = "fetchSettle"
  /\ lastArg' = Outcome(resp)
  /\ lastAlert' = alert
  /\ UNCHANGED lastSelected
  /\ UNCHANGED <<phase, wsOpened, wsCloseCalls, wsErrorLogged, parseErrorLogged,
                 mode, alerts, accepted, now>>
  /\ UNCHANGED <<mitigations, closeTimers>>
  /\ UNCHANGED noticeVars

\* a close that also empties the alert list
CloseDetailAndList ==
  /\ activeIncident' = NoIncident
  /\ alerts' = <<>>

\* setActiveIncident(null)
CloseDetail ==
  /\ activeIncident' = NoIncident
  /\ UNCHANGED alerts

ViewState == IF Shown(activeIncident) THEN "open" ELSE "closed"

\* the close button of the modal, rendered while activeIncident is truthy
Dismiss ==
  /\ phase = "mounted"
  /\ Shown(activeIncident)
  /\ CloseDetail
  /\ lastOp' = "dismiss"
  /\ lastArg' = ViewState
  /\ lastAlert' = NoAlert
  /\ UNCHANGED lastSelected
  /\ UNCHANGED <<phase, wsOpened, wsCloseCalls, wsErrorLogged, parseErrorLogged,
                 mode, accepted, now>>
  /\ UNCHANGED <<fetches, mitigations, closeTimers>>
  /\ UNCHANGED noticeVars

\* the delayed close scheduled by handleMitigate
CloseTimerFire(deadline) ==
  /\ phase = "mounted"
  /\ BagIn(deadline, closeTimers)
  /\ deadline <= now
  /\ CloseDetail
  /\ closeTimers' = Without(closeTimers, deadline)
  /\ lastOp' = "closeTimer"
  /\ lastArg' = ViewState
  /\ lastAlert' = NoAlert
  /\ UNCHANGED lastSelected
  /\ UNCHANGED <<phase, wsOpened, wsCloseCalls, wsErrorLogged, parseErrorLogged,
                 mode, accepted, now>>
  /\ UNCHANGED <<fetches, mitigations>>
  /\ UNCHANGED noticeVars

(* ------------------------------ notices -------------------------------- *)

\* the auto-dismiss effect of a notice, which runs when the notice's value
\* changes: the cleanup clears the old timer, and a truthy value arms a new
\* one.  Setting the state to the value it has runs no effect.
ArmedTimer(old, new, timer) ==
  IF new = old THEN timer
  ELSE IF Truthy(new) THEN now + NoticeDelayMs
  ELSE -1

\* the timer of mitigationSuccess: setMitigationSuccess(null)
MitTimerFire ==
  /\ phase = "mounted"
  /\ mitTimer # -1
  /\ mitTimer <= now
  /\ mitigationSuccess' = JsNull
  /\ mitTimer' = ArmedTimer(mitigationSuccess, JsNull, mitTimer)
  /\ lastOp' = "mitTimer"
  /\ lastArg' = ""
  /\ lastAlert' = NoAlert
  /\ UNCHANGED lastSelected
  /\ UNCHANGED <<phase, wsOpened, wsCloseCalls, wsErrorLogged, parseErrorLogged,
                 mode, alerts, accepted, now>>
  /\ UNCHANGED <<simulationFeedback, simTimer, simulations, simRaisedAt>>
  /\ UNCHANGED detailVars

\* the timer of simulationFeedback: setSimulationFeedback(null)
SimTimerFire ==
  /\ phase = "mounted"
  /\ simTimer # -1
  /\ simTimer <= now
  /\ simulationFeedback' = JsNull
  /\ simTimer' = ArmedTimer(simulationFeedback, JsNull, simTimer)
  /\ lastOp' = "simTimer"
  /\ lastArg' = ""
  /\ lastAlert' = NoAlert
  /\ UNCHANGED lastSelected
  /\ UNCHANGED <<phase, wsOpened, wsCloseCalls, wsErrorLogged, parseErrorLogged,
                 mode, alerts, accepted, now>>
  /\ UNCHANGED <<mitigationSuccess, mitTimer, simulations, simRaisedAt>>
  /\ UNCHANGED detailVars

(* ----------------------------- simulation ------------------------------ *)

SimulationKinds == {"portscan", "udpflood"}

SimulationMessage(kind) ==
  IF kind = "portscan" THEN Str("Port Scan simulation triggered")
  ELSE Str("UDP Flood simulation triggered")

\* triggerSimulation up to its await; the buttons are rendered in twin mode
SimulateClick(kind) ==
  /\ phase = "mounted"
  /\ mode = "twin"
  /\ BagCardinality(simulations) < MaxSimulations
  /\ simulations' = With(simulations, kind)
  /\ lastOp' = "simulateClick"
  /\ lastArg' = kind
  /\ lastAlert' = NoAlert
  /\ UNCHANGED lastSelected
  /\ UNCHANGED <<phase, wsOpened, wsCloseCalls, wsErrorLogged, parseErrorLogged,
                 mode, alerts, accepted, now>>
  /\ UNCHANGED <<mitigationSuccess, simulationFeedback, mitTimer, simTimer,
                 simRaisedAt>>
  /\ UNCHANGED detailVars

\* setSimulationFeedback(message), and the effect it triggers
RaiseSimulationNotice(kind) ==
  /\ simulationFeedback' = SimulationMessage(kind)
  /\ simTimer' = ArmedTimer(simulationFeedback, SimulationMessage(kind), simTimer)
  /\ simRaisedAt' = now

\* the catch block of triggerSimulation
SimulateCatch(kind) == RaiseSimulationNotice(kind)

\* triggerSimulation after its await: a call in flight settles
SimulateSettle(kind, ok) ==
  /\ phase = "mounted"
  /\ BagIn(kind, simulations)
  /\ IF ok THEN RaiseSimulationNotice(kind)
           ELSE SimulateCatch(kind)
  /\ simulations' = Without(simulations, kind)
  /\ lastOp' = "simulateSettle"
  /\ lastArg' = IF ok THEN "resolved" ELSE "rejected"
  /\ lastAlert' = NoAlert
  /\ UNCHANGED lastSelected
  /\ UNCHANGED <<phase, wsOpened, wsCloseCalls, wsErrorLogged, parseErrorLogged,
                 mode, alerts, accepted, now>>
  /\ UNCHANGED <<mitigationSuccess, mitTimer>>
  /\ UNCHANGED detailVars

(* ----------------------------- mitigation ------------------------------ *)

\* the mitigate button is rendered for a resolved attacker address, and is
\* disabled while the mitigation notice is up
MitigateOffered ==
  /\ Shown(activeIncident)
  /\ Truthy(activeIncident.attacker_ip)
  /\ activeIncident.attacker_ip # Str("Unknown")
  /\ ~Truthy(mitigationSuccess)

\* handleMitigate up to its await; the handler keeps the incident it was
\* rendered with
MitigateClick ==
  /\ phase = "mounted"
  /\ MitigateOffered
  /\ Shown(activeIncident) /\ Truthy(activeIncident.attacker_ip)
  /\ BagCardinality(mitigations) + BagCardinality(closeTimers) < MaxMitigations
  /\ mitigations' = With(mitigations, activeIncident)
  /\ lastOp' = "mitigateClick"
  /\ lastArg' = ""
  /\ lastAlert' = NoAlert
  /\ UNCHANGED lastSelected
  /\ UNCHANGED <<phase, wsOpened, wsCloseCalls, wsErrorLogged, parseErrorLogged,
                 mode, alerts, accepted, now>>
  /\ UNCHANGED <<activeIncident, fetches, closeTimers>>
  /\ UNCHANGED noticeVars

\* setMitigationSuccess(activeIncident.incident_id) with the effect it
\* triggers, and setTimeout(() => setActiveIncident(null), 1000)
ConfirmMitigation(inc) ==
  /\ mitigationSuccess' = inc.incident_id
  /\ mitTimer' = ArmedTimer(mitigationSuccess, inc.incident_id, mitTimer)
  /\ closeTimers' = With(closeTimers, now + CloseDelayMs)

\* a catch block that swallows the failure and does nothing
MitigateCatchSilent(inc) == UNCHANGED <<mitigationSuccess, mitTimer, closeTimers>>

\* the catch block of handleMitigate
MitigateCatch(inc) == ConfirmMitigation(inc)

\* handleMitigate after its await: a call in flight, holding `inc`, settles
MitigateSettle(inc, ok) ==
  /\ phase = "mounted"
  /\ BagIn(inc, mitigations)
  /\ IF ok THEN ConfirmMitigation(inc)
           ELSE MitigateCatch(inc)
  /\ mitigations' = Without(mitigations, inc)
  /\ lastOp' = "mitigateSettle"
  /\ lastArg' = IF ok THEN "resolved" ELSE "rejected"
  /\ lastAlert' = NoAlert
  /\ UNCHANGED lastSelected
  /\ UNCHANGED <<phase, wsOpened, wsCloseCalls, wsErrorLogged, parseErrorLogged,
                 mode, alerts, accepted, now>>
  /\ UNCHANGED <<simulationFeedback, simTimer, simulations, simRaisedAt>>
  /\ UNCHANGED <<activeIncident, fetches>>

(* -------------------------------- time --------------------------------- *)

\* a timer that is due runs before the clock moves on
NothingDue ==
  /\ mitTimer = -1 \/ mitTimer > now
  /\ simTimer = -1 \/ simTimer > now
  /\ \A d \in BagToSet(closeTimers) : d > now

Tick(limit) ==
  /\ phase = "mounted"
  /\ now < limit * CloseDelayMs
  /\ NothingDue
  /\ now' = now + CloseDelayMs
  /\ lastOp' = "tick"
  /\ lastArg' = ""
  /\ lastAlert' = NoAlert
  /\ UNCHANGED lastSelected
  /\ UNCHANGED <<phase, wsOpened, wsCloseCalls, wsErrorLogged, parseErrorLogged,
                 mode, alerts, accepted>>
  /\ UNCHANGED <<detailVars, noticeVars>>

(* --------------------------- specifications ---------------------------- *)

Feed(texts, limit) ==
  \E text \in texts : Len(accepted) < limit /\ OnMessage(text)

\* a click on an entry of the list, while fewer than `limit` fetches are in flight
Select(limit) ==
  \E i \in 1..Len(alerts) : BagCardinality(fetches) < limit /\ AlertClick(i)

\* the live feed alone, long enough for the window to overflow
NextStream ==
  \/ Mount
  \/ Unmount
  \/ Feed(Payloads, MaxAccepted)
  \/ OnError

SpecStream == Init /\ [][NextStream]_vars

\* the messages of the full specification: two summaries and one discarded
DetailPayloads == {TxtAlertA, TxtAlertB, TxtFooBar}

\* the detail view: selection, resolution, dismissal and mitigation
NextDetail ==
  \/ Mount
  \/ Feed(DetailPayloads, MaxFeed)
  \/ Select(MaxFetchesDetail)
  \/ \E a \in BagToSet(fetches), resp \in Responses : FetchSettle(a, resp)
  \/ Dismiss
  \/ \E d \in BagToSet(closeTimers) : CloseTimerFire(d)
  \/ MitigateClick
  \/ \E inc \in BagToSet(mitigations), ok \in BOOLEAN : MitigateSettle(inc, ok)
  \/ MitTimerFire
  \/ Tick(MaxTimeDetail)

SpecDetail == Init /\ [][NextDetail]_vars

\* selection and resolution alone, with several fetches in flight
NextSelect ==
  \/ Mount
  \/ Feed(DetailPayloads, MaxFeed)
  \/ Select(MaxFetches)
  \/ \E a \in BagToSet(fetches), resp \in Responses : FetchSettle(a, resp)
  \/ Dismiss
  \/ Tick(MaxTimeDetail)

SpecSelect == Init /\ [][NextSelect]_vars

\* fewer than `limit` backend calls, of any kind, are in flight
CallsBelow(limit) ==
  BagCardinality(fetches) + BagCardinality(mitigations)
    + BagCardinality(simulations) < limit

\* every handler the operator or the stream can trigger, before any timer is due
NextHandlers ==
  \/ Mount
  \/ Feed(DetailPayloads, MaxFeed)
  \/ \E m \in {"live", "twin"} : ModeChange(m)
  \/ CallsBelow(MaxCalls) /\ Select(MaxFetchesDetail)
  \/ \E a \in BagToSet(fetches), resp \in Responses : FetchSettle(a, resp)
  \/ Dismiss
  \/ CallsBelow(MaxCalls) /\ MitigateClick
  \/ \E inc \in BagToSet(mitigations), ok \in BOOLEAN : MitigateSettle(inc, ok)
  \/ CallsBelow(MaxCalls) /\ \E k \in SimulationKinds : SimulateClick(k)
  \/ \E k \in BagToSet(simulations), ok \in BOOLEAN : SimulateSettle(k, ok)

SpecHandlers == Init /\ [][NextHandlers]_vars

\* the simulation triggers and their notice
NextNotice ==
  \/ Mount
  \/ \E m \in {"live", "twin"} : ModeChange(m)
  \/ \E k \in SimulationKinds : SimulateClick(k)
  \/ \E k \in BagToSet(simulations), ok \in BOOLEAN : SimulateSettle(k, ok)
  \/ SimTimerFire
  \/ Tick(MaxTimeNotice)

SpecNotice == Init /\ [][NextNotice]_vars

(* ------------------------------ live feed: claims ---------------------- *)

\* the i-th most recent of the accepted messages
Recent(i) == accepted[Len(accepted) + 1 - i]

\* C1: in every reachable state the alert list holds at most 10 entries and is
\* the (up to) 10 most recently accepted messages, most recent first, in
\* arrival order.
C1_RecentWindow ==
  /\ Len(alerts) <= 10
  /\ Len(alerts) = Min(10, Len(accepted))
  /\ \A i \in 1..Len(alerts) : alerts[i] = Recent(i)

\* eleven messages were accepted and the oldest one, unlike the second, is gone
C1_Evicted ==
  /\ Len(accepted) = 11
  /\ Len(alerts) = 10
  /\ accepted[1] # accepted[2]
  /\ alerts[10] = accepted[2]
  /\ alerts[1] = accepted[11]

\* what the specification asks of a summary: a non-empty incidentId and a
\* numeric threatScore
WellFormedSummary(data) ==
  /\ data.kind = "object"
  /\ data.incident_id.ty # "undefined"
  /\ data.incident_id # Str("")
  /\ data.threat_score.ty = "number"

\* C2: a message without incidentId, with an empty incidentId or with a
\* non-numeric threatScore leaves the alert list as it was, and every entry of
\* the list has a non-empty incidentId and a numeric threatScore.
C2_OnlyWellFormedAccepted ==
  [][/\ \A i \in 1..Len(alerts') : WellFormedSummary(alerts'[i])
     /\ (lastOp' = "message" /\ ~JSONParse(lastArg').threw
           /\ ~WellFormedSummary(JSONParse(lastArg').value))
          => alerts' = alerts]_vars

\* {"foo":"bar"}, or a summary with a text score, has just been discarded while
\* the list held an entry
C2_Discarded ==
  /\ lastOp = "message"
  /\ lastArg \in {TxtFooBar, TxtTextScore}
  /\ Len(alerts) > 0

\* C9: a message that does not parse, or whose handling throws, changes neither
\* the alert list nor the connection, and a well-formed message that arrives
\* after one is still put at the head of the list.
C9_MalformedIsNotFatal ==
  [][lastOp' = "message" =>
       LET r == JSONParse(lastArg') IN
         /\ (r.threw \/ PropertyReadThrows(r.value)) =>
               /\ alerts' = alerts
               /\ wsCloseCalls' = wsCloseCalls
               /\ wsOpened' = wsOpened
               /\ phase' = "mounted"
         /\ (~r.threw /\ WellFormedSummary(r.value) /\ parseErrorLogged) =>
               /\ Len(alerts') > 0
               /\ alerts'[1] = r.value]_vars

\* a well-formed message has been accepted after a malformed one was discarded
C9_AcceptedAfterMalformed ==
  /\ parseErrorLogged
  /\ lastOp = "message"
  /\ lastArg = TxtAlertB
  /\ Len(alerts) > 1
  /\ alerts[1].incident_id = Str("B")
  /\ wsCloseCalls = 0

\* C10: one connection is opened at mount and never another; it is closed
\* once, at unmount, and not before.
C10_OneConnection ==
  /\ phase = "new" => wsOpened = 0 /\ wsCloseCalls = 0
  /\ phase = "mounted" => wsOpened = 1 /\ wsCloseCalls = 0
  /\ phase = "unmounted" => wsOpened = 1 /\ wsCloseCalls = 1

\* unmounted after a stream error and a message whose handling threw
C10_ClosedAfterErrors ==
  /\ phase = "unmounted"
  /\ wsErrorLogged
  /\ parseErrorLogged
  /\ Len(alerts) > 0

(* ---------------------------- detail view: claims ---------------------- *)

\* the detail fetch that just settled was rejected
FetchFailed == lastOp = "fetchSettle" /\ lastArg \in {"network_error", "http_error"}

\* C3: after a failed detail fetch the active incident has the summary's
\* incidentId, mainEvent and sequence, the attackerIp "Unknown", and the current
\* time as firstSeen and lastSeen.
C3_PlaceholderIsUnknown ==
  FetchFailed =>
    /\ activeIncident.incident_id = lastAlert.incident_id
    /\ activeIncident.main_event = lastAlert.main_event
    /\ activeIncident.sequence = lastAlert.sequence
    /\ activeIncident.attacker_ip = Str("Unknown")
    /\ activeIncident.first_seen = now
    /\ activeIncident.last_seen = now

\* C4: when the fetch of a selection has settled, whatever its outcome, the
\* active incident is not null.
C4_SettledIsNonNull ==
  lastOp = "fetchSettle" => activeIncident # NoIncident

\* C5: a detail fetch that settles right after the view was dismissed leaves
\* the active incident at "none".
C5_LateResultIgnored ==
  [][(lastOp = "dismiss" /\ lastOp' = "fetchSettle")
       => activeIncident' = NoIncident]_vars

\* C6: a dismissal, by the close button or by the delayed close, leaves the
\* active incident at "none" and the alert list and the notices as they were;
\* on a view that is already dismissed it changes none of the three.
C6_DismissIdempotent ==
  [][lastOp' \in {"dismiss", "closeTimer"} =>
       /\ activeIncident' = NoIncident
       /\ alerts' = alerts
       /\ mitigationSuccess' = mitigationSuccess
       /\ simulationFeedback' = simulationFeedback
       /\ activeIncident = NoIncident => activeIncident' = activeIncident]_vars

\* the delayed close ran on a view the operator had dismissed before
C6_DismissedTwice ==
  /\ lastOp = "closeTimer"
  /\ lastArg = "closed"
  /\ activeIncident = NoIncident
  /\ Len(alerts) > 0
  /\ Truthy(mitigationSuccess)

\* C7: a mitigate call that settles, resolved or rejected, shows the notice for
\* the incident it was issued for and schedules the close one delay ahead; a
\* scheduled close is never overdue, and when it runs the view is closed.
C7_MitigationOutcomeBlind ==
  [][/\ lastOp' = "mitigateSettle" =>
          \E inc \in BagToSet(mitigations) :
            /\ mitigations' = Without(mitigations, inc)
            /\ mitigationSuccess' = inc.incident_id
            /\ Truthy(mitigationSuccess')
            /\ mitTimer' # -1
            /\ closeTimers' = With(closeTimers, now + CloseDelayMs)
            /\ activeIncident' = activeIncident
     /\ lastOp' = "closeTimer" => activeIncident' = NoIncident
     /\ \A d \in BagToSet(closeTimers') :
          /\ now' <= d
          /\ d <= now' + CloseDelayMs]_vars

\* a rejected mitigate call has put the notice up and scheduled the close
C7_RejectedStillConfirms ==
  /\ lastOp = "mitigateSettle"
  /\ lastArg = "rejected"
  /\ Truthy(mitigationSuccess)
  /\ Shown(activeIncident)
  /\ BagCardinality(closeTimers) = 1

\* C11: a selection adds its fetch to the fetches in flight and cancels none;
\* only a fetch that settles leaves them; and the fetch that settles sets the
\* active incident to its own result, a record or placeholder of the alert it
\* was started for, whichever alert was selected most recently.
C11_LastResolvedWins ==
  [][/\ lastOp' = "alertClick" =>
          /\ fetches' = With(fetches, lastSelected')
          /\ activeIncident' = activeIncident
     /\ lastOp' = "fetchSettle" =>
          /\ BagIn(lastAlert', fetches)
          /\ fetches' = Without(fetches, lastAlert')
          /\ lastArg' \in {"record", "network_error", "http_error"} =>
               /\ Shown(activeIncident')
               /\ activeIncident'.incident_id = lastAlert'.incident_id
               /\ activeIncident'.main_event = lastAlert'.main_event
     /\ lastOp' \notin {"alertClick", "fetchSettle"} => fetches' = fetches]_vars

\* A was selected, then B; both fetches have settled, A's last, and the active
\* incident is A's
C11_StaleResultShown ==
  /\ lastOp = "fetchSettle"
  /\ fetches = EmptyBag
  /\ lastSelected # NoAlert
  /\ lastAlert.incident_id # lastSelected.incident_id
  /\ Shown(activeIncident)
  /\ activeIncident.incident_id = lastAlert.incident_id

\* the handlers of the detail view and of the simulation triggers
DetailOps ==
  {"alertClick", "fetchSettle", "dismiss", "mitigateClick", "mitigateSettle",
   "simulateClick", "simulateSettle"}

\* C12: a stream message, accepted or discarded, leaves the active incident as
\* it was; selecting, resolving, dismissing, mitigating and simulating leave
\* the alert list as it was; a mode switch leaves both as they were.
C12_OwnHandlersOnly ==
  [][/\ lastOp' = "message" => activeIncident' = activeIncident
     /\ lastOp' \in DetailOps => alerts' = alerts
     /\ lastOp' = "modeChange" =>
          /\ alerts' = alerts
          /\ activeIncident' = activeIncident]_vars

\* the mode was switched while a detail view was open over a non-empty list,
\* after a mitigation and a simulation had been confirmed
C12_SwitchedWhileOpen ==
  /\ lastOp = "modeChange"
  /\ mode = "live"
  /\ Shown(activeIncident)
  /\ Len(alerts) = MaxFeed
  /\ Truthy(mitigationSuccess)
  /\ Truthy(simulationFeedback)

\* C13: when the delayed close of a mitigation runs while the view shows an
\* incident other than the mitigated one (the one the mitigation notice
\* names), that view stays open.
C13_CloseOnlyMitigated ==
  [][(/\ lastOp' = "closeTimer"
      /\ Truthy(mitigationSuccess)
      /\ Shown(activeIncident)
      /\ activeIncident.incident_id # mitigationSuccess)
       => activeIncident' = activeIncident]_vars

\* the incident is the placeholder of a failed detail fetch, made at any time
IsPlaceholder(inc) ==
  \E i \in 1..Len(accepted) :
    inc = [Placeholder(accepted[i]) EXCEPT !.first_seen = inc.first_seen,
                                           !.last_seen = inc.last_seen]

\* C14: every mitigate call in flight was issued for an incident that has a
\* non-empty attacker address other than "Unknown" and that is not the
\* placeholder of a failed detail fetch.
C14_NoUnresolvedTarget ==
  \A inc \in BagToSet(mitigations) :
    /\ Shown(inc)
    /\ Truthy(inc.attacker_ip)
    /\ inc.attacker_ip # Str("Unknown")
    /\ ~IsPlaceholder(inc)

(* ------------------------------ notices: claims ------------------------ *)

\* C8: a simulate call that settles, resolved or rejected, puts its notice up,
\* and the timer clears a notice only when the full delay has passed since the
\* notice was last raised.
C8_NoticeKeepsFullDelay ==
  /\ lastOp = "simulateSettle" => Truthy(simulationFeedback) /\ simTimer # -1
  /\ lastOp = "simTimer" =>
       /\ simulationFeedback = JsNull
       /\ now >= simRaisedAt + NoticeDelayMs

====
